---- MODULE Spec2Model ----
(***************************************************************************)
(* matrix.py: two dynamic programs.                                        *)
(*   find_least_seam(d, m, n)            - row by row seam table           *)
(*   break_string_cost(string_length, cuts) - interval table over widths   *)
(* Each function is modelled as a state machine whose step fills one cell  *)
(* of its table, in the order of the source's loops, followed by the step  *)
(* that reads the result.  SeamSpec runs find_least_seam, CutSpec runs     *)
(* break_string_cost.                                                      *)
(***************************************************************************)
EXTENDS Integers, Sequences, FiniteSets

VARIABLES
    pc,             \* "loop" | "return" | "done"
    d,              \* find_least_seam: the grid, d[row][col], 0-based
    m, n,           \* find_least_seam: parameters; break_string_cost: locals
    string_length,  \* break_string_cost: parameter
    cuts,           \* break_string_cost: parameter (a sequence, cuts[1] is Python's cuts[0])
    dp,             \* the table, dp[row][col], 0-based
    widx,           \* break_string_cost: position of the iterator of the outer loop
    i, j,           \* the loop variable i and the column j of the cell
    ret,            \* the returned value
    writes,         \* history: how often each cell (i, j) was assigned in the loops
    reads           \* history: the cells read so far

vars == <<pc, d, m, n, string_length, cuts, dp, widx, i, j, ret, writes, reads>>

----------------------------------------------------------------------------
(* Bounds of the model *)

MaxCells == 8     \* grids with m * n <= MaxCells
MaxVal == 1       \* grid entries in 0..MaxVal
MaxLen == 7       \* string lengths in 1..MaxLen
MaxBadLen == 2    \* unvalidated cut lists (any order, out of range) up to this length

----------------------------------------------------------------------------
(* Python values *)

\* float('inf') and the integers: a number is a record, inf or finite
Inf == [inf |-> TRUE, v |-> 0]

Fin(x) == [inf |-> FALSE, v |-> x]

\* a < b
ExtLess(a, b) == ~a.inf /\ (b.inf \/ a.v < b.v)

\* min(a, b): Python returns the first argument unless the second is smaller
ExtMin(a, b) == IF ExtLess(b, a) THEN b ELSE a

\* a + b
ExtPlus(a, b) == IF a.inf \/ b.inf THEN Inf ELSE Fin(a.v + b.v)

\* list[idx] for a list of length len: a negative index counts from the end
PyIndex(idx, len) == IF idx < 0 THEN idx + len ELSE idx

\* range(a, b) as the sequence of its values
Range(a, b) == [x \in 1..(IF b > a THEN b - a ELSE 0) |-> a + x - 1]

----------------------------------------------------------------------------
(* find_least_seam *)

\* dp = [[0 for j in range(1, n + 1)] for i in range(1, m + 1)]
SeamTable(mm, nn) == [r \in 0..(mm - 1) |-> [c \in 0..(nn - 1) |-> Fin(0)]]

\* for k in range(-1, 2): if n > k + j >= 0: valid = min(valid, dp[i - 2][k + j - 1])
RECURSIVE ValidLoop(_, _, _, _, _, _)
ValidLoop(tab, nn, ii, jj, k, valid) ==
    IF k >= 2 THEN valid
    ELSE ValidLoop(tab, nn, ii, jj, k + 1,
                   IF nn > k + jj /\ k + jj >= 0
                   THEN ExtMin(valid, tab[ii - 2][PyIndex(k + jj - 1, nn)])
                   ELSE valid)

\* SeamCell with the window's minimum subtracted instead of added
SeamCellSubtract(grid, tab, nn, ii, jj) ==
    IF ii = 1 THEN Fin(grid[ii - 1][jj - 1])
    ELSE Fin(grid[ii - 1][jj - 1] - ValidLoop(tab, nn, ii, jj, -1, Inf).v)

\* the value assigned to dp[i - 1][j - 1]
SeamCell(grid, tab, nn, ii, jj) ==
    IF ii = 1 THEN Fin(grid[ii - 1][jj - 1])
    ELSE ExtPlus(Fin(grid[ii - 1][jj - 1]), ValidLoop(tab, nn, ii, jj, -1, Inf))

\* the body of the two loops for one (i, j)
SeamAssign(grid, tab, nn, ii, jj) ==
    [tab EXCEPT ![ii - 1][jj - 1] = SeamCell(grid, tab, nn, ii, jj)]

\* min(row) of a list of length len, from index c on
RECURSIVE MinFrom(_, _, _, _)
MinFrom(row, len, c, acc) ==
    IF c >= len THEN acc ELSE MinFrom(row, len, c + 1, ExtMin(acc, row[c]))

\* SeamResult returning the first entry of the last row instead of its minimum
SeamResultFirst(tab, mm, nn) == tab[mm - 1][0]

\* return min(dp[m - 1])
SeamResult(tab, mm, nn) == MinFrom(tab[mm - 1], nn, 1, tab[mm - 1][0])

\* the two loops, from (i, j) on, and the whole function
RECURSIVE SeamFill(_, _, _, _, _, _)
SeamFill(grid, tab, mm, nn, ii, jj) ==
    IF ii > mm THEN tab
    ELSE SeamFill(grid, SeamAssign(grid, tab, nn, ii, jj), mm, nn,
                  IF jj < nn THEN ii ELSE ii + 1,
                  IF jj < nn THEN jj + 1 ELSE 1)

find_least_seam(grid, mm, nn) ==
    SeamResult(SeamFill(grid, SeamTable(mm, nn), mm, nn, 1, 1), mm, nn)

Shapes == {s \in (1..MaxCells) \X (1..MaxCells) : s[1] * s[2] <= MaxCells}

Grids(mm, nn) == [0..(mm - 1) -> [0..(nn - 1) -> 0..MaxVal]]

SeamInit ==
    /\ \E s \in Shapes :
         /\ m = s[1]
         /\ n = s[2]
         /\ d \in Grids(s[1], s[2])
         /\ dp = SeamTable(s[1], s[2])
    /\ pc = "loop"
    /\ i = 1
    /\ j = 1
    /\ ret = Fin(0)
    /\ string_length = 0
    /\ cuts = <<>>
    /\ widx = 0
    /\ writes = <<>>
    /\ reads = {}

SeamStep ==
    /\ pc = "loop"
    /\ dp' = SeamAssign(d, dp, n, i, j)
    /\ IF j < n
       THEN /\ j' = j + 1
            /\ UNCHANGED <<i, pc>>
       ELSE /\ j' = 1
            /\ i' = i + 1
            /\ pc' = IF i < m THEN "loop" ELSE "return"
    /\ UNCHANGED <<d, m, n, string_length, cuts, widx, ret, writes, reads>>

SeamReturn ==
    /\ pc = "return"
    /\ ret' = SeamResult(dp, m, n)
    /\ pc' = "done"
    /\ UNCHANGED <<d, m, n, string_length, cuts, dp, widx, i, j, writes, reads>>

SeamNext == SeamStep \/ SeamReturn

SeamSpec == SeamInit /\ [][SeamNext]_vars

----------------------------------------------------------------------------
(* find_least_seam: reference definitions and properties *)

IntMin(S) == CHOOSE x \in S : \A y \in S : x <= y

Abs(x) == IF x < 0 THEN -x ELSE x

\* the seams of an mm x nn grid: one column per row, moving by at most one column
Seams(mm, nn) ==
    {p \in [0..(mm - 1) -> 0..(nn - 1)] :
        \A r \in 0..(mm - 2) : Abs(p[r + 1] - p[r]) <= 1}

RECURSIVE SeamSum(_, _, _)
SeamSum(grid, p, r) == IF r < 0 THEN 0 ELSE grid[r][p[r]] + SeamSum(grid, p, r - 1)

LeastSeam(grid, mm, nn) == IntMin({SeamSum(grid, p, mm - 1) : p \in Seams(mm, nn)})

\* the columns j-1, j, j+1 that lie in [0, nn)
Window(c, nn) == {c - 1, c, c + 1} \cap (0..(nn - 1))

\* C2: the value find_least_seam returns is the minimum, over all seams of the
\* grid, of the sum of the cells on the seam.
C2_ReturnsLeastSeam ==
    pc = "done" => ret = Fin(LeastSeam(d, m, n))

\* C5: for a grid of a single row, find_least_seam returns the minimum entry of
\* that row.
C5_SingleRowMin ==
    (pc = "done" /\ m = 1) => ret = Fin(IntMin({d[0][c] : c \in 0..(n - 1)}))

C5_Witness ==
    /\ pc = "done"
    /\ m = 1
    /\ n >= 3
    /\ d[0][0] > d[0][1]
    /\ ret = Fin(d[0][1])

\* C6: raising the value of one cell of the grid never lowers the value
\* find_least_seam returns.
C6_Monotone ==
    pc = "done" =>
        \A r \in 0..(m - 1), c \in 0..(n - 1), v \in 0..MaxVal :
            v > d[r][c] =>
                ~ExtLess(find_least_seam([d EXCEPT ![r][c] = v], m, n), ret)

C6_Witness ==
    /\ pc = "done"
    /\ m >= 2
    /\ n >= 2
    /\ \E r \in 0..(m - 1), c \in 0..(n - 1), v \in 0..MaxVal :
          /\ v > d[r][c]
          /\ ExtLess(ret, find_least_seam([d EXCEPT ![r][c] = v], m, n))
    /\ \E r \in 0..(m - 1), c \in 0..(n - 1), v \in 0..MaxVal :
          /\ v > d[r][c]
          /\ ret = find_least_seam([d EXCEPT ![r][c] = v], m, n)

\* C7: when the table is filled, row 0 is the grid's row 0 and every later cell is
\* its grid value plus the minimum of the previous row over the columns j-1, j,
\* j+1 that lie inside the grid.
C7_TableRecurrence ==
    pc \in {"return", "done"} =>
        \A r \in 0..(m - 1), c \in 0..(n - 1) :
            dp[r][c] = IF r = 0 THEN Fin(d[0][c])
                       ELSE Fin(d[r][c] + IntMin({dp[r - 1][k].v : k \in Window(c, n)}))

----------------------------------------------------------------------------
(* break_string_cost *)

\* dp = [[(0, -1) for _ in range(m)] for _ in range(m)] with (inf, -1) in every cell
CutTableInf(mm) == [r \in 0..(mm - 1) |-> [c \in 0..(mm - 1) |-> <<Inf, -1>>]]

\* dp = [[(0, -1) for _ in range(m)] for _ in range(m)]
CutTable(mm) == [r \in 0..(mm - 1) |-> [c \in 0..(mm - 1) |-> <<Fin(0), -1>>]]

\* the outer loop taking the widest range first
WidthRangeDown(mm) == [x \in 1..(mm - 1) |-> mm - x]

\* for num_break_points in range(1, m)
WidthRange(mm) == Range(1, mm)

\* Better with <= in the place of <: a later k of equal cost replaces the earlier
BetterOrEqual(cost, min_cost) == ~ExtLess(min_cost[1], cost[1])

\* if cost[0] < min_cost[0]
Better(cost, min_cost) == ExtLess(cost[1], min_cost[1])

\* for k in range(i, j): cost = (dp[i][k][0] + dp[k+1][j][0], k); keep the smaller
RECURSIVE KLoop(_, _, _, _, _)
KLoop(tab, ii, jj, k, min_cost) ==
    IF k >= jj THEN min_cost
    ELSE LET cost == <<ExtPlus(tab[ii][k][1], tab[k + 1][jj][1]), k>>
         IN  KLoop(tab, ii, jj, k + 1, IF Better(cost, min_cost) THEN cost ELSE min_cost)

\* StringStart without the test for i == 0: cuts[-1] is the last cut
StringStartNoTest(cs, ii) == cs[PyIndex(ii - 1, Len(cs)) + 1]

\* string_start = 0 if i == 0 else cuts[i - 1]
StringStart(cs, ii) == IF ii = 0 THEN 0 ELSE cs[(ii - 1) + 1]

\* string_end = string_length if j >= n else cuts[j]
StringEnd(len, cs, nn, jj) == IF jj >= nn THEN len ELSE cs[jj + 1]

\* CutCell with string_start - string_end in the place of string_end - string_start
CutCellSwapped(tab, len, cs, nn, ii, jj) ==
    LET min_cost == KLoop(tab, ii, jj, ii, <<Inf, -1>>)
    IN  <<ExtPlus(ExtPlus(min_cost[1], Fin(StringStart(cs, ii))),
                  Fin(-StringEnd(len, cs, nn, jj))),
          min_cost[2]>>

\* the pair assigned to dp[i][j]
CutCell(tab, len, cs, nn, ii, jj) ==
    LET min_cost == KLoop(tab, ii, jj, ii, <<Inf, -1>>)
    IN  <<ExtPlus(ExtPlus(min_cost[1], Fin(StringEnd(len, cs, nn, jj))),
                  Fin(-StringStart(cs, ii))),
          min_cost[2]>>

\* the cells the step for (i, j) reads
CellsRead(ii, jj) ==
    {<<ii, k>> : k \in ii..(jj - 1)} \cup {<<k + 1, jj>> : k \in ii..(jj - 1)}

\* the call at the end of the module
ModuleCall == <<20, <<2, 8, 10>>>>

\* the elements of a set of integers in increasing order
RECURSIVE Sorted(_)
Sorted(S) ==
    IF S = {} THEN <<>>
    ELSE LET x == CHOOSE y \in S : \A z \in S : y <= z
         IN  <<x>> \o Sorted(S \ {x})

\* strictly increasing lists of cuts in [0, len)
IncreasingCuts(len) == {Sorted(S) : S \in SUBSET (0..(len - 1))}

\* short lists of cuts in any order, also just outside [0, len)
AnyCuts(len) == UNION {[1..k -> (-1)..len] : k \in 0..MaxBadLen}

CutInputs ==
    {ModuleCall} \cup
    UNION {{<<len, cs>> : cs \in IncreasingCuts(len) \cup AnyCuts(len)} : len \in 1..MaxLen}

CutInit ==
    /\ \E a \in CutInputs :
         /\ string_length = a[1]
         /\ cuts = a[2]
         /\ n = Len(a[2])
         /\ m = Len(a[2]) + 1
         /\ dp = CutTable(Len(a[2]) + 1)
         /\ writes = [c \in (0..Len(a[2])) \X (0..Len(a[2])) |-> 0]
         /\ pc = IF Len(WidthRange(Len(a[2]) + 1)) > 0 THEN "loop" ELSE "return"
    /\ widx = 1
    /\ i = 0
    /\ j = 0
    /\ ret = Fin(0)
    /\ reads = {}
    /\ d = <<>>

\* the value of num_break_points in the current iteration
num_break_points == WidthRange(m)[widx]

CutStep ==
    /\ pc = "loop"
    /\ LET jj == i + num_break_points
       IN  /\ dp' = [dp EXCEPT ![i][jj] = CutCell(dp, string_length, cuts, n, i, jj)]
           /\ writes' = [writes EXCEPT ![<<i, jj>>] = @ + 1]
           /\ reads' = reads \cup CellsRead(i, jj)
           /\ j' = jj
    /\ IF i + 1 < m - num_break_points
       THEN /\ i' = i + 1
            /\ UNCHANGED <<widx, pc>>
       ELSE /\ i' = 0
            /\ widx' = widx + 1
            /\ pc' = IF widx < Len(WidthRange(m)) THEN "loop" ELSE "return"
    /\ UNCHANGED <<d, m, n, string_length, cuts, ret>>

CutReturn ==
    /\ pc = "return"
    /\ ret' = dp[0][n][1]
    /\ reads' = reads \cup {<<0, n>>}
    /\ pc' = "done"
    /\ UNCHANGED <<d, m, n, string_length, cuts, dp, widx, i, j, writes>>

CutNext == CutStep \/ CutReturn

CutSpec == CutInit /\ [][CutNext]_vars

----------------------------------------------------------------------------
(* break_string_cost: reference definitions and properties *)

\* the preconditions on cuts: strictly increasing, each in [0, len)
ValidCuts(len, cs) ==
    /\ \A x \in 1..Len(cs) : 0 <= cs[x] /\ cs[x] < len
    /\ \A x \in 1..(Len(cs) - 1) : cs[x] < cs[x + 1]

\* strictly increasing cuts strictly inside the string
InsideCuts(len, cs) ==
    /\ \A x \in 1..Len(cs) : 0 < cs[x] /\ cs[x] < len
    /\ \A x \in 1..(Len(cs) - 1) : cs[x] < cs[x + 1]

\* all orders of the elements of S
RECURSIVE Orders(_)
Orders(S) ==
    IF S = {} THEN {<<>>}
    ELSE UNION {{<<x>> \o o : o \in Orders(S \ {x})} : x \in S}

\* applying the cuts in the given order to the pieces (pairs <<from, to>>): each cut
\* costs the length of the piece it falls in
RECURSIVE OrderCost(_, _)
OrderCost(order, pieces) ==
    IF order = <<>> THEN 0
    ELSE LET c == Head(order)
             p == CHOOSE q \in pieces : q[1] < c /\ c < q[2]
         IN  (p[2] - p[1]) +
             OrderCost(Tail(order), (pieces \ {p}) \cup {<<p[1], c>>, <<c, p[2]>>})

BestOrderCost(len, cs) ==
    IntMin({OrderCost(o, {<<0, len>>}) : o \in Orders({cs[x] : x \in 1..Len(cs)})})

\* C1: for at most 6 increasing cuts inside the string, break_string_cost returns
\* the least, over all orders of applying the cuts, of the summed lengths of the
\* pieces being cut; break_string_cost(20, [2, 8, 10]) is 38.
C1_LeastOverOrders ==
    /\ (pc = "done" /\ InsideCuts(string_length, cuts) /\ Len(cuts) <= 6)
           => ret = Fin(BestOrderCost(string_length, cuts))
    /\ (pc = "done" /\ <<string_length, cuts>> = ModuleCall) => ret = Fin(38)

C1_Witness ==
    /\ pc = "done"
    /\ InsideCuts(string_length, cuts)
    /\ Len(cuts) = 6
    /\ ret = Fin(BestOrderCost(string_length, cuts))

\* C3: a call whose cuts are not strictly increasing or lie outside
\* [0, string_length) computes no cell of the table and returns no cost.
C3_InvalidInputRejected ==
    ~ValidCuts(string_length, cuts) =>
        /\ pc # "done"
        /\ \A c \in DOMAIN writes : writes[c] = 0

\* C4: with a single valid cut k, break_string_cost returns the string length.
C4_SingleCut ==
    (pc = "done" /\ Len(cuts) = 1 /\ ValidCuts(string_length, cuts))
        => ret = Fin(string_length)

C4_Witness ==
    /\ pc = "done"
    /\ Len(cuts) = 1
    /\ 1 < cuts[1]
    /\ cuts[1] < string_length - 1
    /\ ret = Fin(string_length)

\* the cells with i < j
UpperCells == {c \in (0..n) \X (0..n) : c[1] < c[2]}

\* C8: a cell with i < j that a step reads was assigned before that step, no cell
\* is assigned after it was read (so what is read is final), no cell is assigned
\* twice, after the loops every cell with i < j was assigned once, and nothing is
\* assigned once the answer cell (0, n) was read.
C8_WidthOrder ==
    /\ [][\A c \in reads' : /\ writes'[c] = writes[c]
                            /\ c[1] < c[2] => writes[c] = 1]_vars
    /\ [](\A c \in DOMAIN writes : writes[c] <= 1)
    /\ [](pc \in {"return", "done"} => \A c \in UpperCells : writes[c] = 1)
    /\ [][pc = "done" => (dp' = dp /\ writes' = writes)]_vars

C8_Witness ==
    /\ pc = "done"
    /\ n >= 3
    /\ <<0, n>> \in reads
    /\ <<1, n>> \in reads
    /\ \A c \in UpperCells : writes[c] = 1

\* C9 as stated: after the loops every cell (i, j) with i <= j and j - i <= 1 holds
\* (0, -1).
C9_NarrowCellsZero ==
    pc \in {"return", "done"} =>
        \A c \in (0..n) \X (0..n) :
            (c[1] <= c[2] /\ c[2] - c[1] <= 1) => dp[c[1]][c[2]] = <<Fin(0), -1>>

\* the place of boundary x: the string's ends and the cuts between them
Position(x) == IF x = 0 THEN 0 ELSE IF x > n THEN string_length ELSE cuts[x]

\* C9 amended: after the loops every cell (i, i) holds (0, -1), and every cell
\* (i, i + 1) holds the length of its range and the split index i.
C9_DiagonalZero ==
    pc \in {"return", "done"} =>
        /\ \A x \in 0..n : dp[x][x] = <<Fin(0), -1>>
        /\ \A x \in 0..(n - 1) :
               dp[x][x + 1] = <<Fin(Position(x + 2) - Position(x)), x>>

C9_Witness ==
    /\ pc = "done"
    /\ n >= 2
    /\ ValidCuts(string_length, cuts)
    /\ dp[1][1] = <<Fin(0), -1>>
    /\ dp[0][1][1].v > 0

\* the cost of splitting the range (i, j) at k, from the finished table
SplitCost(ii, jj, k) == dp[ii][k][1].v + dp[k + 1][jj][1].v

\* C10: after the loops the split index of every cell (i, j) with i < j is the
\* smallest k in [i, j) of least dp[i][k].cost + dp[k+1][j].cost, never -1.
C10_SmallestBestSplit ==
    pc \in {"return", "done"} =>
        \A c \in UpperCells :
            LET s == dp[c[1]][c[2]][2]
            IN  /\ s \in c[1]..(c[2] - 1)
                /\ \A k \in c[1]..(c[2] - 1) :
                       /\ SplitCost(c[1], c[2], s) <= SplitCost(c[1], c[2], k)
                       /\ k < s => SplitCost(c[1], c[2], s) < SplitCost(c[1], c[2], k)

C10_Witness ==
    /\ pc = "done"
    /\ \E c \in UpperCells :
          \E k \in c[1]..(c[2] - 1) :
             /\ k > dp[c[1]][c[2]][2]
             /\ SplitCost(c[1], c[2], k) = SplitCost(c[1], c[2], dp[c[1]][c[2]][2])
    /\ \E c \in UpperCells : dp[c[1]][c[2]][2] > c[1]

====
